---- MODULE Spec2Model ----
(***************************************************************************)
(* A model of PlanarityTester (tarjan.py): the adjacency store filled by   *)
(* add_edge and the DFS-based test run by is_planar (DFS numbering,        *)
(* lowpoints, edge ordering, the stack-of-buckets fold).                   *)
(*                                                                         *)
(* Python lists of length V are functions on 0..V-1; an index i is read    *)
(* the way Python reads it: -V <= i < 0 denotes element V+i, anything      *)
(* outside -V..V-1 raises IndexError.  The outcome of a call is a string:  *)
(* "True", "False", "IndexError" (the exception leaves the call) or        *)
(* "Diverges" (the call never returns).                                    *)
(***************************************************************************)
EXTENDS Integers, Sequences, FiniteSets, TLC

\* V .. sorted_edges are the fields of one PlanarityTester (nesting_depth,
\* line 18, is never read or written).  The others record the calls made on
\* it: outcomes, how the is_planar calls since the last add_edge ended; last,
\* the last call (op), whether its arguments were vertices (valid) and how it
\* ended (ret); fold, the stack after each step of the last _test_planarity.
VARIABLES V, graph, num, lowpt, lowpt2, parent, counter, edges, sorted_edges,
          outcomes, last, fold

vars == <<V, graph, num, lowpt, lowpt2, parent, counter, edges, sorted_edges,
          outcomes, last, fold>>

\* ------------------------------------------------------------------ bounds

\* Largest vertex count of an object built with a free choice of edges.
MaxV == 3
\* Most add_edge calls on such an object.
MaxEdges == 3
\* Most is_planar calls between two add_edge calls.
MaxCalls == 2

\* ------------------------------------------------------------ Python lists

\* The keys add_edge may be called with: every vertex, and -1 and V besides.
Keys(n) == -1 .. n

\* [x] * n
Filled(n, x) == [i \in 0 .. n - 1 |-> x]

\* The element a Python list of length n reads at index i.
Idx(n, i) == IF i < 0 THEN i + n ELSE i

\* Whether index i is one a Python list of length n has.
InRange(n, i) == -n <= i /\ i < n

Min(a, b) == IF a < b THEN a ELSE b

\* --------------------------------------------------------------- the object

\* Edge(v1, v2, sign): sign 1 for a tree edge, -1 for a back edge.
Edge(a, b, s) == [v1 |-> a, v2 |-> b, sign |-> s]

\* PlanarityTester(vertices): the fields after __init__.  exc is the
\* exception in flight, "none" when there is none.
NewTester(n) ==
    [V |-> n,
     graph |-> [k \in Keys(n) |-> <<>>],
     num |-> Filled(n, -1),
     lowpt |-> Filled(n, -1),
     lowpt2 |-> Filled(n, -1),
     parent |-> Filled(n, -1),
     counter |-> 0,
     edges |-> <<>>,
     sorted_edges |-> <<>>,
     exc |-> "none"]

\* add_edge(u, v): no check of u or v; graph is a defaultdict, so every key
\* has a list.
add_edge(s, u, v) ==
    LET g1 == [s.graph EXCEPT ![u] = Append(@, v)]
        g2 == [g1 EXCEPT ![v] = Append(@, u)]
    IN  [s EXCEPT !.graph = g2]

\* ------------------------------------------------------------ DFS numbering

RECURSIVE compute_numbers(_, _), visit_neighbours(_, _, _)

\* _compute_numbers(v): counter is bumped before num[v] is written, so an
\* IndexError at num[v] leaves the bumped counter behind.  Every normal
\* return is True: the "return False" of lines 32 and 50 is never taken.
compute_numbers(s, v) ==
    LET s1 == [s EXCEPT !.counter = @ + 1]
    IN  IF ~InRange(s.V, v)
        THEN [s1 EXCEPT !.exc = "IndexError"]
        ELSE visit_neighbours(
                [s1 EXCEPT !.num[Idx(s.V, v)] = s1.counter], v, 1)

\* for w in self.graph[v], from the i-th neighbour on.
visit_neighbours(s, v, i) ==
    IF s.exc # "none" \/ i > Len(s.graph[v]) THEN s
    ELSE LET w == s.graph[v][i]
         IN  IF ~InRange(s.V, w) THEN [s EXCEPT !.exc = "IndexError"]
             ELSE IF s.num[Idx(s.V, w)] = -1
             THEN visit_neighbours(
                     compute_numbers(
                         [s EXCEPT !.parent[Idx(s.V, w)] = v,
                                   !.edges = Append(@, Edge(v, w, 1))],
                         w),
                     v, i + 1)
             ELSE IF s.num[Idx(s.V, w)] < s.num[Idx(s.V, v)]
                     /\ w # s.parent[Idx(s.V, v)]
             THEN visit_neighbours(
                     [s EXCEPT !.edges = Append(@, Edge(v, w, -1))], v, i + 1)
             ELSE visit_neighbours(s, v, i + 1)

\* ---------------------------------------------------------------- lowpoints

RECURSIVE lowpoints_of(_, _, _), lowpoints_from(_, _)

\* The inner loop of _compute_lowpoints: for w in self.graph[v], from the
\* i-th neighbour on.  Line 65 compares num[w] with parent[v].
lowpoints_of(s, v, i) ==
    IF s.exc # "none" \/ i > Len(s.graph[v]) THEN s
    ELSE LET w == s.graph[v][i]
         IN  IF ~InRange(s.V, w) THEN [s EXCEPT !.exc = "IndexError"]
             ELSE IF s.num[Idx(s.V, w)] < s.num[v]
                     /\ s.num[Idx(s.V, w)] # s.parent[v]
             THEN lowpoints_of(
                     [s EXCEPT !.lowpt[v] = Min(@, s.num[Idx(s.V, w)])],
                     v, i + 1)
             ELSE IF s.num[Idx(s.V, w)] > s.num[v]
             THEN lowpoints_of(
                     [s EXCEPT !.lowpt[v] = Min(@, s.lowpt[Idx(s.V, w)]),
                               !.lowpt2[v] = Min(@, s.lowpt2[Idx(s.V, w)])],
                     v, i + 1)
             ELSE lowpoints_of(s, v, i + 1)

\* The outer loop of _compute_lowpoints: for v in range(self.V), from v on.
lowpoints_from(s, v) ==
    IF s.exc # "none" \/ v >= s.V THEN s
    ELSE IF s.num[v] # -1
    THEN lowpoints_from(
            lowpoints_of([s EXCEPT !.lowpt[v] = s.num[v],
                                   !.lowpt2[v] = s.num[v]], v, 1),
            v + 1)
    ELSE lowpoints_from(s, v + 1)

compute_lowpoints(s) == lowpoints_from(s, 0)

\* ------------------------------------------------------------ edge ordering

\* edge_key(e) taking every edge by the number of v2.
edge_num_of_v2(s, e) == s.num[Idx(s.V, e.v2)]

\* edge_key(e): the number of v2 for a tree edge, of v1 for a back edge.
edge_num(s, e) ==
    IF e.sign = 1 THEN s.num[Idx(s.V, e.v2)] ELSE s.num[Idx(s.V, e.v1)]

\* edge_key(e), the tuple (number, 0 or 1).
edge_key(s, e) == <<edge_num(s, e), IF e.sign = 1 THEN 0 ELSE 1>>

\* The order of Python tuples of two integers.
KeyLeq(a, b) == a[1] < b[1] \/ (a[1] = b[1] /\ a[2] <= b[2])

RECURSIVE insert_sorted(_, _, _), sorted_by_key(_, _)

\* e put into the sorted list es after every element whose key is not
\* greater: sorted() is stable.
insert_sorted(s, es, e) ==
    IF es = <<>> THEN <<e>>
    ELSE LET n == Len(es)
         IN  IF KeyLeq(edge_key(s, es[n]), edge_key(s, e))
             THEN Append(es, e)
             ELSE Append(insert_sorted(s, SubSeq(es, 1, n - 1), e), es[n])

\* sorted(es, key=edge_key)
sorted_by_key(s, es) ==
    IF es = <<>> THEN <<>>
    ELSE insert_sorted(s, sorted_by_key(s, SubSeq(es, 1, Len(es) - 1)),
                       es[Len(es)])

sort_edges(s) == [s EXCEPT !.sorted_edges = sorted_by_key(s, s.edges)]

\* ------------------------------------------------------ interval stack test

\* The smaller and the larger number of an edge's two endpoints.
lo_num(s, e) == Min(s.num[Idx(s.V, e.v1)], s.num[Idx(s.V, e.v2)])
hi_num(s, e) ==
    IF s.num[Idx(s.V, e.v1)] > s.num[Idx(s.V, e.v2)]
    THEN s.num[Idx(s.V, e.v1)] ELSE s.num[Idx(s.V, e.v2)]

\* _edges_cross(edge1, edge2)
edges_cross(s, e1, e2) ==
    \/ (lo_num(s, e1) < lo_num(s, e2) /\ lo_num(s, e2) < hi_num(s, e1)
        /\ hi_num(s, e1) < hi_num(s, e2))
    \/ (lo_num(s, e2) < lo_num(s, e1) /\ lo_num(s, e1) < hi_num(s, e2)
        /\ hi_num(s, e2) < hi_num(s, e1))

\* An Optional[List[Edge]]: None, or a list.
None == [some |-> FALSE, val |-> <<>>]
Some(x) == [some |-> TRUE, val |-> x]

\* _merge_edges(bucket, target): ok is the value returned, val is target
\* after the call.  "not target" is true of None and of the empty list, and
\* then nothing is moved.
merge_edges(s, bucket, target) ==
    IF ~target.some \/ target.val = <<>>
    THEN [ok |-> TRUE, val |-> target.val]
    ELSE IF \E i \in 1 .. Len(bucket) : \E j \in 1 .. Len(target.val) :
                edges_cross(s, bucket[i], target.val[j])
    THEN [ok |-> FALSE, val |-> target.val]
    ELSE [ok |-> TRUE, val |-> target.val \o bucket]

RECURSIVE nesting_walk(_, _, _, _)

\* The loop of _compute_nesting_depth, at vertex v after depth steps.  v runs
\* over parent links, that is over -1 .. V-1: once V+1 steps were taken and
\* the loop still goes on, a value of v has come back and the loop never
\* ends, which is reported as -1.
nesting_walk(s, v, w, depth) ==
    IF s.num[Idx(s.V, v)] > s.num[Idx(s.V, w)]
    THEN IF depth >= s.V + 1 THEN -1
         ELSE nesting_walk(s, s.parent[Idx(s.V, v)], w, depth + 1)
    ELSE depth

\* _compute_nesting_depth(edge)
compute_nesting_depth(s, e) == nesting_walk(s, e.v1, e.v2, 0)

\* The stack with its top bucket replaced.
with_top(stack, bucket) ==
    IF stack = <<>> THEN stack ELSE [stack EXCEPT ![Len(stack)] = bucket]

\* What the fold has done: after n edges were consumed, the stack was this.
Step(n, stack) == [n |-> n, stack |-> stack]

\* The check of line 93 with the comparison off by one.
too_deep_by_two(height, current_height) == height > current_height + 1

\* Line 93: a back edge that reaches further up than the stack is high ends
\* the test with False.
too_deep(height, current_height) == height > current_height

RECURSIVE pop_buckets(_, _, _, _), clean_up(_, _), test_edges(_, _, _)

\* while len(stack) > height: pop, merge into the new top (None when the
\* stack is now empty), current_height -= 1.  n edges were consumed before.
pop_buckets(s, f, height, n) ==
    IF Len(f.stack) <= height THEN f
    ELSE LET k == Len(f.stack)
             bucket == f.stack[k]
             rest == SubSeq(f.stack, 1, k - 1)
             m == merge_edges(s, bucket,
                              IF rest # <<>> THEN Some(rest[k - 1]) ELSE None)
         IN  IF ~m.ok THEN [f EXCEPT !.stack = rest, !.ret = "False"]
             ELSE LET st == with_top(rest, m.val)
                  IN  pop_buckets(s,
                          [f EXCEPT !.stack = st,
                                    !.current_height = @ - 1,
                                    !.trace = Append(@, Step(n, st))],
                          height, n)

\* The loop over self.sorted_edges, from the i-th edge on.
test_edges(s, f, i) ==
    IF f.ret # "none" \/ i > Len(s.sorted_edges) THEN f
    ELSE LET edge == s.sorted_edges[i]
         IN  IF edge.sign = 1
             THEN LET st == Append(f.stack, <<>>)
                  IN  test_edges(s,
                          [f EXCEPT !.current_height = @ + 1,
                                    !.stack = st,
                                    !.trace = Append(@, Step(i, st))],
                          i + 1)
             ELSE LET height == compute_nesting_depth(s, edge)
                  IN  IF height = -1 THEN [f EXCEPT !.ret = "Diverges"]
                      ELSE IF too_deep(height, f.current_height)
                      THEN [f EXCEPT !.ret = "False"]
                      ELSE LET p == pop_buckets(s, f, height, i - 1)
                           IN  IF p.ret # "none" THEN p
                               ELSE LET st ==
                                          IF p.stack # <<>>
                                          THEN with_top(p.stack,
                                                 Append(p.stack[Len(p.stack)],
                                                        edge))
                                          ELSE p.stack
                                    IN  test_edges(s,
                                          [p EXCEPT !.stack = st,
                                                    !.trace =
                                                      Append(@, Step(i, st))],
                                          i + 1)

\* The clean-up loop: while len(stack) > 1, pop and merge into the new top.
clean_up(s, f) ==
    IF f.ret # "none" THEN f
    ELSE IF Len(f.stack) <= 1 THEN [f EXCEPT !.ret = "True"]
    ELSE LET k == Len(f.stack)
             rest == SubSeq(f.stack, 1, k - 1)
             m == merge_edges(s, f.stack[k], Some(rest[k - 1]))
         IN  IF ~m.ok THEN [f EXCEPT !.stack = rest, !.ret = "False"]
             ELSE LET st == with_top(rest, m.val)
                  IN  clean_up(s,
                          [f EXCEPT !.stack = st,
                                    !.trace = Append(@,
                                       Step(Len(s.sorted_edges), st))])

\* _test_planarity(): ret is the value returned ("Diverges" when the call
\* never returns), trace the stack after each step.
test_planarity(s) ==
    clean_up(s,
        test_edges(s,
            [stack |-> <<>>, current_height |-> 0, ret |-> "none",
             trace |-> <<>>],
            1))

\* is_planar(): self is the object the call leaves behind, ret its outcome,
\* trace the steps of _test_planarity when the call got that far.
is_planar(s) ==
    LET s1 == compute_numbers(s, 0)
    IN  IF s1.exc # "none"
        THEN [self |-> s1, ret |-> s1.exc, trace |-> <<>>]
        ELSE LET s2 == compute_lowpoints(s1)
             IN  IF s2.exc # "none"
                 THEN [self |-> s2, ret |-> s2.exc, trace |-> <<>>]
                 ELSE LET s3 == sort_edges(s2)
                          t == test_planarity(s3)
                      IN  [self |-> s3, ret |-> t.ret, trace |-> t.trace]

\* ------------------------------------------------------------------ actions

\* The object the state variables hold.
Self ==
    [V |-> V, graph |-> graph, num |-> num, lowpt |-> lowpt,
     lowpt2 |-> lowpt2, parent |-> parent, counter |-> counter,
     edges |-> edges, sorted_edges |-> sorted_edges, exc |-> "none"]

\* The state variables take the fields of object s.
Becomes(s) ==
    /\ V' = s.V
    /\ graph' = s.graph
    /\ num' = s.num
    /\ lowpt' = s.lowpt
    /\ lowpt2' = s.lowpt2
    /\ parent' = s.parent
    /\ counter' = s.counter
    /\ edges' = s.edges
    /\ sorted_edges' = s.sorted_edges

\* Whether v is a vertex of a graph of n vertices.
IsVertex(n, v) == 0 <= v /\ v < n

RECURSIVE entries(_, _)
\* The number of adjacency entries under the keys -1 .. k.
entries(g, k) == IF k < -1 THEN 0 ELSE Len(g[k]) + entries(g, k - 1)

\* The number of add_edge calls the store has taken.
EdgeCount == entries(graph, V) \div 2

\* A call that has not returned keeps the caller from calling again.
Running == last.ret = "Diverges"

\* g = PlanarityTester(n)
Construct(n) ==
    LET s == NewTester(n)
    IN  /\ V = s.V
        /\ graph = s.graph
        /\ num = s.num
        /\ lowpt = s.lowpt
        /\ lowpt2 = s.lowpt2
        /\ parent = s.parent
        /\ counter = s.counter
        /\ edges = s.edges
        /\ sorted_edges = s.sorted_edges
        /\ outcomes = <<>>
        /\ last = [op |-> "init", valid |-> TRUE, ret |-> "none"]
        /\ fold = <<>>

\* g.add_edge(u, v): returns None; "valid" records whether u and v are
\* vertices.
AddEdge(u, v) ==
    /\ ~Running
    /\ Becomes(add_edge(Self, u, v))
    /\ outcomes' = <<>>
    /\ last' = [op |-> "add_edge",
                valid |-> IsVertex(V, u) /\ IsVertex(V, v),
                ret |-> "none"]
    /\ UNCHANGED fold

\* g.is_planar()
IsPlanar ==
    /\ ~Running
    /\ LET r == is_planar(Self)
       IN  /\ Becomes([r.self EXCEPT !.exc = "none"])
           /\ outcomes' = Append(outcomes, r.ret)
           /\ last' = [op |-> "is_planar", valid |-> TRUE, ret |-> r.ret]
           /\ fold' = r.trace

\* ------------------------------------------------------------ specifications

\* Any object of at most MaxV vertices; add_edge is called with any keys,
\* is_planar any number of times.
Init == \E n \in 0 .. MaxV : Construct(n)

AddAny ==
    /\ EdgeCount < MaxEdges
    /\ \E u \in Keys(V) : \E v \in Keys(V) : AddEdge(u, v)

CallAgain ==
    /\ Len(outcomes) < MaxCalls
    /\ IsPlanar

Next == AddAny \/ CallAgain

Spec == Init /\ [][Next]_vars

\* The drivers at the end of tarjan.py build a complete graph and test it
\* once.  The specifications below are these drivers with the edges added
\* in any order.

\* The vertex count of the first example (line 150).
K4Size == 4
\* The vertex count of the second example (line 163).
K5Size == 5
\* The vertex count of a K5 beside one more vertex.
UnionSize == K5Size + 1

\* Whether the store holds edge {u, v} already.
HasEdge(u, v) == \E i \in 1 .. Len(graph[u]) : graph[u][i] = v

\* The number of edges of the complete graph on n vertices.
CompleteCount(n) == (n * (n - 1)) \div 2

\* g.add_edge(u, v) for two distinct vertices not joined yet.
AddNew(u, v) ==
    /\ IsVertex(V, u) /\ IsVertex(V, v) /\ u < v
    /\ ~HasEdge(u, v)
    /\ AddEdge(u, v)

\* A driver adds its edges before it tests.
Building == last.op # "is_planar"

\* The same with add_edge called as its callers are told to: two distinct
\* vertices, no edge twice.
AddSimple ==
    /\ EdgeCount < MaxEdges
    /\ \E u \in 0 .. V - 1 : \E v \in 0 .. V - 1 : AddNew(u, v)

NextSimple == AddSimple \/ CallAgain

SpecSimple == Init /\ [][NextSimple]_vars

\* Whether the list is strictly increasing.
Increasing(seq) == \A i \in 1 .. Len(seq) - 1 : seq[i] < seq[i + 1]

\* Whether every edge of store g lies within the vertices b .. b + K5Size - 1.
Within(g, b) ==
    \A k \in DOMAIN g :
        g[k] # <<>> => (b <= k /\ k < b + K5Size)

\* K4: every simple graph on four vertices, tested once at any time.
InitK4 == Construct(K4Size)

AddK4 ==
    /\ Building
    /\ \E u \in 0 .. V - 1 : \E v \in 0 .. V - 1 : AddNew(u, v)

CallOnce ==
    /\ Building
    /\ IsPlanar

NextK4 == AddK4 \/ CallOnce

SpecK4 == InitK4 /\ [][NextK4]_vars

\* K5: the ten edges in any order in which the four edges at vertex 0 come by
\* increasing other endpoint.  Every order of the ten edges is such an order
\* after a renaming of the vertices 1 .. 4, which the edge set of K5 and the
\* root of the DFS do not see.
InitK5 == Construct(K5Size)

AddK5 ==
    /\ Building
    /\ \E u \in 0 .. V - 1 : \E v \in 0 .. V - 1 :
           /\ AddNew(u, v)
           /\ Increasing(graph'[0])

CallComplete ==
    /\ EdgeCount = CompleteCount(K5Size)
    /\ CallOnce

NextK5 == AddK5 \/ CallComplete

SpecK5 == InitK5 /\ [][NextK5]_vars

\* A K5 and one more vertex: the K5 on 0 .. 4 beside vertex 5, or on 1 .. 5
\* beside vertex 0, its edges at its lowest vertex by increasing endpoint.
InitUnion == Construct(UnionSize)

AddUnion ==
    /\ Building
    /\ \E u \in 0 .. V - 1 : \E v \in 0 .. V - 1 :
           /\ AddNew(u, v)
           /\ \E b \in 0 .. 1 : Within(graph', b) /\ Increasing(graph'[b])

NextUnion == AddUnion \/ CallComplete

SpecUnion == InitUnion /\ [][NextUnion]_vars

\* --------------------------------------------------------------- the claims

\* The last operation was an is_planar call.
Called == last.op = "is_planar"

\* The last is_planar call got as far as _test_planarity.
Tested == Called /\ last.ret \in {"True", "False", "Diverges"}

\* The store holds the complete graph on n of its vertices and nothing else.
HoldsComplete(n) == EdgeCount = CompleteCount(n)

\* C1: a K5 beside one more vertex is reported non-planar, whichever of the
\* two components holds vertex 0.
C1_UnionNonPlanar ==
    (Called /\ V = UnionSize /\ HoldsComplete(K5Size)) => last.ret = "False"

\* The store after the same add_edge calls with every vertex v renamed p[v].
Relabelled(p) ==
    [k \in DOMAIN graph |->
        IF IsVertex(V, k)
        THEN LET v == CHOOSE x \in 0 .. V - 1 : p[x] = k
             IN  [i \in 1 .. Len(graph[v]) |-> p[graph[v][i]]]
        ELSE <<>>]

\* C2: is_planar on a graph returns what it returns on every relabelling of
\* the graph's vertices.
C2_RelabelInvariant ==
    Called =>
        \A p \in Permutations(0 .. V - 1) :
            is_planar([NewTester(V) EXCEPT !.graph = Relabelled(p)]).ret
                = last.ret

\* A renaming of the vertices other than the root 0 does not change what
\* is_planar returns (SpecK4): the orders SpecK5 leaves out are renamings
\* of this kind of the orders it takes.
RootRelabelInvariant ==
    Called =>
        \A p \in {q \in Permutations(0 .. V - 1) : q[0] = 0} :
            is_planar([NewTester(V) EXCEPT !.graph = Relabelled(p)]).ret
                = last.ret

\* C3: K4 is reported planar, in whatever order its six edges were added.
C3_K4Planar ==
    (Called /\ V = K4Size /\ HoldsComplete(K4Size)) => last.ret = "True"

\* C4: K5 is reported non-planar, in whatever order its ten edges were added.
C4_K5NonPlanar ==
    (Called /\ V = K5Size /\ HoldsComplete(K5Size)) => last.ret = "False"

\* K5 was tested after its edges came in an order other than the example's.
C4_K5Tested ==
    /\ Called /\ V = K5Size /\ HoldsComplete(K5Size)
    /\ ~Increasing(graph[K5Size - 1])
    /\ last.ret = "False"

\* C5: add_edge with an endpoint that is no vertex fails with InvalidVertex
\* and leaves the adjacency store as it was.
C5_InvalidVertexRejected ==
    [][(last'.op = "add_edge" /\ ~last'.valid)
          => (graph' = graph /\ last'.ret = "InvalidVertex")]_vars

\* C6: every is_planar call on an unmodified graph returns what the first
\* call on it returned.
C6_Repeatable ==
    \A i \in 1 .. Len(outcomes) : outcomes[i] = outcomes[1]

\* C7: a graph without edges is reported planar, for every vertex count.
C7_EdgelessPlanar ==
    (Called /\ EdgeCount = 0) => last.ret = "True"

\* The least element of a non-empty set of integers.
MinOf(S) == CHOOSE x \in S : \A y \in S : x <= y

\* The elements of a list.
Range(seq) == {seq[i] : i \in 1 .. Len(seq)}

\* What C8 says lowpt[v] is: the least of v's number, the numbers at the far
\* end of v's back edges and the lowpoints of v's tree children.
StatedLowpt(v) ==
    MinOf({num[v]}
          \cup {num[e.v2] : e \in {x \in Range(edges) :
                                      x.sign = -1 /\ x.v1 = v}}
          \cup {lowpt[e.v2] : e \in {x \in Range(edges) :
                                      x.sign = 1 /\ x.v1 = v}})

\* C8: after the first test of a graph, the lowpoint of every visited vertex
\* is the stated minimum, and is the number of a visited vertex.
C8_Lowpoint ==
    (Tested /\ Len(outcomes) = 1) =>
        \A v \in 0 .. V - 1 :
            num[v] # -1 =>
                /\ lowpt[v] = StatedLowpt(v)
                /\ \E u \in 0 .. V - 1 : num[u] # -1 /\ lowpt[v] = num[u]

RECURSIVE Flatten(_)
\* The edges of all buckets of a stack, bottom bucket first.
Flatten(stack) ==
    IF stack = <<>> THEN <<>>
    ELSE Flatten(SubSeq(stack, 1, Len(stack) - 1)) \o stack[Len(stack)]

\* How often e occurs in a list.
Count(seq, e) == Cardinality({i \in 1 .. Len(seq) : seq[i] = e})

\* The back edges among the first n edges of the sorted sequence.
IsBack(e) == e.sign = -1
BackConsumed(n) == SelectSeq(SubSeq(sorted_edges, 1, n), IsBack)

\* C9: at every step of the fold of a first test, the buckets on the stack
\* hold exactly the back edges consumed so far.
C9_MergeConserves ==
    (Called /\ Len(outcomes) = 1) =>
        \A k \in 1 .. Len(fold) :
            \A e \in Range(sorted_edges) :
                Count(Flatten(fold[k].stack), e)
                    = Count(BackConsumed(fold[k].n), e)

\* The elements of a list whose key is k, in the list's order.
WithKey(seq, Key(_), k) ==
    LET Has(e) == Key(e) = k IN SelectSeq(seq, Has)

\* Whether out is the list in sorted by Key, equal keys in the order of in.
IsStableSort(out, in, Key(_)) ==
    /\ Len(out) = Len(in)
    /\ \A i \in 1 .. Len(out) - 1 : Key(out[i]) <= Key(out[i + 1])
    /\ \A k \in {Key(e) : e \in Range(in) \cup Range(out)} :
           WithKey(out, Key, k) = WithKey(in, Key, k)

\* The key C10 states: the number of a tree edge's child, of a back edge's
\* ancestor (lower-numbered) endpoint.
AncestorKey(e) ==
    IF e.sign = 1 THEN num[Idx(V, e.v2)]
    ELSE Min(num[Idx(V, e.v1)], num[Idx(V, e.v2)])

\* C10 as stated, for the first test of a graph: the tested sequence is the
\* discovered edges sorted by the child's number for a tree edge and by the
\* ancestor's number for a back edge, equal keys in discovery order.
C10_OrderByAncestor ==
    (Tested /\ Len(outcomes) = 1) =>
        IsStableSort(sorted_edges, edges, AncestorKey)

\* The number of a tree edge's child, and of the endpoint a back edge was
\* discovered from (its descendant end).
DiscoveryKey(e) ==
    IF e.sign = 1 THEN num[Idx(V, e.v2)] ELSE num[Idx(V, e.v1)]

\* C10, amended: the tested sequence is the discovered edges sorted by the
\* child's number for a tree edge and by the number of the endpoint it was
\* discovered from (the descendant) for a back edge, equal keys in discovery
\* order.
C10_OrderByDescendant ==
    Tested => IsStableSort(sorted_edges, edges, DiscoveryKey)

\* A test has sorted a back edge behind a tree edge whose child has a
\* greater number than the back edge's ancestor.
C10_BackEdgeSorted ==
    /\ Tested
    /\ \E i \in 1 .. Len(sorted_edges) : \E j \in 1 .. Len(sorted_edges) :
           /\ i < j
           /\ sorted_edges[i].sign = 1 /\ sorted_edges[j].sign = -1
           /\ AncestorKey(sorted_edges[j]) < AncestorKey(sorted_edges[i])

====
